---- MODULE Spec2Model ----
(***************************************************************************)
(* A model of scripts/fetch_eune_matches.py: the client-side rate limiter  *)
(* (RiotRateLimiter), the retrying HTTP wrapper (RiotAPI.get_json), the    *)
(* bundle store (download_match_bundle), the durable matchlist             *)
(* (load_existing_matchlist / write_matchlist) and the collection loop     *)
(* (main).                                                                 *)
(*                                                                         *)
(* Time is counted in ticks of 0.05 time units, the smallest duration the  *)
(* file mentions (the sleep floor of _calculate_sleep); every other        *)
(* duration of the file (0.1, 1, 2^k, 10, 120) is a whole number of ticks. *)
(***************************************************************************)
EXTENDS Integers, Sequences, FiniteSets, TLC

VARIABLES
    \* RiotRateLimiter
    per_second,          \* self.per_second
    per_two_minutes,     \* self.per_two_minutes
    second_window,       \* self._second_window: timestamps, oldest first
    two_minute_window,   \* self._two_minute_window
    clock,               \* the value time.time() returned last, in ticks
    wpc,                 \* position inside wait(): "idle", "check", "sleep"
    sleep_for,           \* the argument of the pending time.sleep of wait()
    admitted,            \* every timestamp wait() has admitted so far
    calls                \* number of wait() calls started

limVars == <<per_second, per_two_minutes, second_window, two_minute_window,
             clock, wpc, sleep_for, admitted, calls>>

VARIABLES
    \* RiotAPI.get_json against one endpoint
    retries,             \* the retries argument
    attempt,             \* the loop variable of get_json
    gpc,                 \* position inside get_json
    script,              \* what the endpoint will answer next, in order
    seen,                \* the responses session.get has returned, in order
    slept,               \* the time.sleep arguments of get_json, in order
    outcome              \* how get_json ended: "none" while it runs

cliVars == <<retries, attempt, gpc, script, seen, slept, outcome>>

VARIABLES
    \* the matchlist file and its round trip
    matchlist_file,      \* the text of the matchlist file, NoFile if absent
    rt_ids,              \* a list of match ids handed to write_matchlist
    rt_loaded            \* what load_existing_matchlist returned last

rtVars == <<rt_ids, rt_loaded>>

VARIABLES
    \* raw_dir and download_match_bundle
    match_files,         \* <matchId>.json for every match id
    timeline_files,      \* <matchId>_timeline.json for every match id
    issued,              \* the get_json calls of the latest step, in order
    last_call            \* the latest download_match_bundle call

diskVars == <<matchlist_file, match_files, timeline_files>>

VARIABLES
    \* main
    args,                \* the parsed command line
    pc,                  \* position inside main
    ordered_ids,         \* ordered_ids
    known_ids,           \* known_ids
    new_matches,         \* new_matches
    puuid_cache,         \* puuid_cache
    skip_key,            \* the skip_stats key the latest step counted
                         \* ("queue" for skip_queue, and so on)
    division,            \* iter_gold_entries: index of the division
    page,                \* iter_gold_entries: the page to request next
    entries,             \* iter_gold_entries: entries still to yield
    start,               \* the offset of the match-id batch
    match_ids,           \* the ids of the batch still to go through
    batch_len,           \* the number of ids of the batch being processed
    loaded_ids,          \* the list load_existing_matchlist gave this run
    discovered           \* the ids this run met and kept, without those
                         \* of loaded_ids, each once

runVars == <<pc, ordered_ids, known_ids, new_matches, puuid_cache, skip_key,
             division, page, entries, start, match_ids, batch_len,
             loaded_ids, discovered>>

VARIABLE
    accepted_earlier     \* the ids that earlier runs accepted

mainVars == <<args, runVars, accepted_earlier>>

vars == <<limVars, cliVars, rtVars, diskVars, issued, last_call, mainVars>>

\* What the steps of the limiter, of get_json and of the round trip leave
\* alone.
bundleVars == <<match_files, timeline_files, issued, last_call>>

----------------------------------------------------------------------------
\* Bounds of the model.
MaxPerSecond == 2
MaxPerTwoMinutes == 3
MaxCalls == 4
MaxRetries == 5
MaxScript == 3
MaxIdLen == 2
MaxListLen == 2
MaxTarget == 2
MaxPageLen == 1
MaxBatchLen == 2

\* Durations of the program, in ticks.
TicksPerUnit == 20
SleepFloor == 1
ShortWindow == 1 * TicksPerUnit
LongWindow == 120 * TicksPerUnit
RetryMargin == 2
DefaultRetryAfter == 1
BackoffBase == 2
BackoffCap == 10
DefaultRetries == 5
DefaultPerSecond == 18
DefaultPerTwoMinutes == 95
DefaultTargetMatches == 1000
DefaultMatchesPerPlayer == 50
DefaultHistoryWindow == 200
DefaultMaxPages == 10

Max2(a, b) == IF a >= b THEN a ELSE b
Min2(a, b) == IF a <= b THEN a ELSE b

\* Sequences over S of length at most n.
SeqsUpTo(S, n) == UNION {[1..k -> S] : k \in 0..n}

----------------------------------------------------------------------------
\* RiotRateLimiter

\* One of the two while loops of _trim_windows: popleft while the head is
\* at least `span` old.
RECURSIVE TrimWindow(_, _, _)
TrimWindow(w, now, span) ==
    IF w # <<>> /\ now - Head(w) >= span
    THEN TrimWindow(Tail(w), now, span)
    ELSE w

\* The admission test of wait(), on the trimmed windows.
HasRoomLoose(sw, tw) == Len(sw) <= per_second /\ Len(tw) <= per_two_minutes
HasRoom(sw, tw) == Len(sw) < per_second /\ Len(tw) < per_two_minutes

\* _calculate_sleep
CalculateSleep(now, sw, tw) ==
    LET w1 == IF sw # <<>>
              THEN {Max2(SleepFloor, ShortWindow - (now - Head(sw)))} ELSE {}
        w2 == IF tw # <<>>
              THEN {Max2(SleepFloor, LongWindow - (now - Head(tw)))} ELSE {}
        waits == w1 \cup w2
    IN IF waits # {} THEN CHOOSE x \in waits : \A y \in waits : y <= x
       ELSE SleepFloor

\* One pass of the loop of wait(): read the clock (d ticks after the last
\* reading), trim, then admit and return, or compute the sleep.
WaitCheck(d) ==
    /\ wpc = "check"
    /\ LET now == clock + d
           sw == TrimWindow(second_window, now, ShortWindow)
           tw == TrimWindow(two_minute_window, now, LongWindow)
       IN /\ clock' = now
          /\ IF HasRoom(sw, tw)
             THEN /\ second_window' = Append(sw, now)
                  /\ two_minute_window' = Append(tw, now)
                  /\ admitted' = Append(admitted, now)
                  /\ wpc' = "idle"
                  /\ sleep_for' = 0
             ELSE /\ second_window' = sw
                  /\ two_minute_window' = tw
                  /\ admitted' = admitted
                  /\ sleep_for' = CalculateSleep(now, sw, tw)
                  /\ wpc' = "sleep"
    /\ UNCHANGED <<per_second, per_two_minutes, calls>>

\* time.sleep(sleep_for) inside wait().
WaitSleep ==
    /\ wpc = "sleep"
    /\ clock' = clock + sleep_for
    /\ wpc' = "check"
    /\ sleep_for' = 0
    /\ UNCHANGED <<per_second, per_two_minutes, second_window,
                   two_minute_window, admitted, calls>>

----------------------------------------------------------------------------
\* RiotAPI.get_json

\* A response: its status code and its Retry-After header, <<n>> for a
\* header of n time units and <<>> when the response has none.
Response(st, ra) == [status |-> st, retry_after |-> ra]

OkResponse == Response(200, <<>>)

\* No response within self.timeout: session.get raises requests' Timeout
\* instead of returning. The status 0 stands for the missing response.
TimedOut == Response(0, <<>>)

Responses ==
    {OkResponse, Response(404, <<>>), Response(429, <<>>),
     Response(429, <<2>>), Response(503, <<>>), TimedOut}

\* The branch of get_json a status code takes, in the order the code tests.
ClassifyRetry4xx(st) ==
    IF st = 429 THEN "rate_limited"
    ELSE IF st >= 400 THEN "server_error"
    ELSE "success"
Classify(st) ==
    IF st = 429 THEN "rate_limited"
    ELSE IF st >= 500 THEN "server_error"
    ELSE IF st >= 400 THEN "client_error"
    ELSE "success"

\* float(response.headers.get("Retry-After", "1")), in ticks.
RetryAfter(r) ==
    IF r.retry_after = <<>> THEN DefaultRetryAfter * TicksPerUnit
    ELSE r.retry_after[1] * TicksPerUnit

\* min(2 ** attempt, 10), in ticks.
Backoff(a) == Min2(BackoffBase ^ a, BackoffCap) * TicksPerUnit

\* The argument of the time.sleep that follows a retried response.
SleepAfterNoMargin(r, a) ==
    IF Classify(r.status) = "rate_limited" THEN RetryAfter(r) ELSE Backoff(a)
SleepAfter(r, a) ==
    IF Classify(r.status) = "rate_limited" THEN RetryAfter(r) + RetryMargin
    ELSE Backoff(a)

\* The head of the for loop: the next attempt calls rate_limiter.wait(), or
\* the range is used up and get_json raises "Giving up ... after n attempts".
LoopHeadOneMore(a, n) == a <= n + 1
LoopHeadOffByOne(a, n) == a < n
LoopHead(a, n) == a <= n

GetJsonAttempt ==
    /\ gpc = "loop"
    /\ IF LoopHead(attempt, retries)
       THEN /\ gpc' = "wait"
            /\ wpc' = "check"
            /\ calls' = calls + 1
            /\ outcome' = outcome
       ELSE /\ gpc' = "raised"
            /\ outcome' = "gave_up"
            /\ UNCHANGED <<wpc, calls>>
    /\ UNCHANGED <<per_second, per_two_minutes, second_window,
                   two_minute_window, clock, sleep_for, admitted>>
    /\ UNCHANGED <<retries, attempt, script, seen, slept>>
    /\ UNCHANGED <<rtVars, diskVars, issued, last_call, mainVars>>

\* session.get: the endpoint answers the head of its script, and 200 once
\* the script is used up. The exception of a timed-out request is caught
\* nowhere in get_json and leaves it.
GetJsonRequest ==
    /\ gpc = "wait"
    /\ wpc = "idle"
    /\ LET r == IF script # <<>> THEN Head(script) ELSE OkResponse IN
       /\ seen' = Append(seen, r)
       /\ gpc' = IF r = TimedOut THEN "raised" ELSE "handle"
       /\ outcome' = IF r = TimedOut THEN "timeout" ELSE outcome
    /\ script' = IF script # <<>> THEN Tail(script) ELSE script
    /\ UNCHANGED limVars
    /\ UNCHANGED <<retries, attempt, slept>>
    /\ UNCHANGED <<rtVars, diskVars, issued, last_call, mainVars>>

\* The status tests on the response: sleep and continue, raise, or return.
GetJsonHandle ==
    /\ gpc = "handle"
    /\ LET r == seen[Len(seen)]
           c == Classify(r.status)
       IN IF c \in {"rate_limited", "server_error"}
          THEN /\ slept' = Append(slept, SleepAfter(r, attempt))
               /\ clock' = clock + SleepAfter(r, attempt)
               /\ attempt' = attempt + 1
               /\ gpc' = "loop"
               /\ outcome' = outcome
          ELSE /\ gpc' = IF c = "client_error" THEN "raised" ELSE "returned"
               /\ outcome' = IF c = "client_error" THEN "failed" ELSE "ok"
               /\ UNCHANGED <<slept, clock, attempt>>
    /\ UNCHANGED <<per_second, per_two_minutes, second_window,
                   two_minute_window, wpc, sleep_for, admitted, calls>>
    /\ UNCHANGED <<retries, script, seen>>
    /\ UNCHANGED <<rtVars, diskVars, issued, last_call, mainVars>>

----------------------------------------------------------------------------
\* The matchlist file: json.dumps(match_ids, indent=2) written by
\* write_matchlist, json.loads read by load_existing_matchlist. A text is a
\* sequence of characters; a match id is a string, modelled as the sequence
\* of its characters.

\* A path that is no file, and a file holding text t.
NoFile == [exists |-> FALSE, text |-> <<>>]
File(t) == [exists |-> TRUE, text |-> t]

Quote == "\""
Backslash == "\\"
Newline == "\n"
Whitespace == {" ", Newline}

\* The characters match ids are made of.
IdChars == {"a", Quote, Backslash}

Range(q) == {q[i] : i \in 1..Len(q)}

\* The escape json.dumps writes for one character of a string.
EscapeCharQuoteOnly(c) ==
    IF c = Quote THEN <<Backslash, Quote>> ELSE <<c>>
EscapeChar(c) ==
    IF c = Quote THEN <<Backslash, Quote>>
    ELSE IF c = Backslash THEN <<Backslash, Backslash>>
    ELSE IF c = Newline THEN <<Backslash, "n">>
    ELSE <<c>>

RECURSIVE EscapeString(_)
EscapeString(str) ==
    IF str = <<>> THEN <<>>
    ELSE EscapeChar(Head(str)) \o EscapeString(Tail(str))

\* json.dumps of one string.
DumpString(str) == <<Quote>> \o EscapeString(str) \o <<Quote>>

\* The items of an indented array, each on a line of its own.
RECURSIVE DumpItems(_)
DumpItems(ids) ==
    IF Len(ids) = 1 THEN DumpString(ids[1])
    ELSE DumpString(Head(ids)) \o <<",", Newline, " ", " ">>
         \o DumpItems(Tail(ids))

\* json.dumps(match_ids, indent=2)
JsonDumps(ids) ==
    IF ids = <<>> THEN <<"[", "]">>
    ELSE <<"[", Newline, " ", " ">> \o DumpItems(ids) \o <<Newline, "]">>

\* The first position from i on that holds no whitespace.
RECURSIVE SkipWs(_, _)
SkipWs(t, i) ==
    IF i <= Len(t) /\ t[i] \in Whitespace THEN SkipWs(t, i + 1) ELSE i

\* The character an escape \c stands for (<<>> when json.loads rejects it).
Unescape(c) ==
    IF c = Quote THEN <<Quote>>
    ELSE IF c = Backslash THEN <<Backslash>>
    ELSE IF c = "n" THEN <<Newline>>
    ELSE <<>>

\* json.loads on the body of a string, from position i (just after the
\* opening quote), acc the characters read so far: the string and the
\* position after its closing quote, or next = 0 for a text it rejects.
RECURSIVE ParseString(_, _, _)
ParseString(t, i, acc) ==
    IF i > Len(t) THEN [val |-> acc, next |-> 0]
    ELSE IF t[i] = Quote THEN [val |-> acc, next |-> i + 1]
    ELSE IF t[i] = Backslash
         THEN IF i + 1 > Len(t) \/ Unescape(t[i + 1]) = <<>>
              THEN [val |-> acc, next |-> 0]
              ELSE ParseString(t, i + 2, acc \o Unescape(t[i + 1]))
    ELSE IF t[i] = Newline THEN [val |-> acc, next |-> 0]
    ELSE ParseString(t, i + 1, acc \o <<t[i]>>)

\* json.loads on the items of an array, from position i (the start of an
\* item), acc the items read so far.
RECURSIVE ParseItems(_, _, _)
ParseItems(t, i, acc) ==
    IF i > Len(t) \/ t[i] # Quote THEN [val |-> acc, next |-> 0]
    ELSE LET item == ParseString(t, i + 1, <<>>)
             j == SkipWs(t, item.next)
         IN IF item.next = 0 \/ j > Len(t) THEN [val |-> acc, next |-> 0]
            ELSE IF t[j] = "]"
                 THEN [val |-> Append(acc, item.val), next |-> j + 1]
            ELSE IF t[j] = ","
                 THEN ParseItems(t, SkipWs(t, j + 1), Append(acc, item.val))
            ELSE [val |-> acc, next |-> 0]

\* json.loads of a text holding an array of strings: ok and the list, or
\* not ok (the ValueError json.loads raises).
JsonError == [ok |-> FALSE, val |-> <<>>]

JsonLoads(t) ==
    LET i == SkipWs(t, 1) IN
    IF i > Len(t) \/ t[i] # "[" THEN JsonError
    ELSE LET j == SkipWs(t, i + 1) IN
         IF j > Len(t) THEN JsonError
         ELSE LET arr == IF t[j] = "]" THEN [val |-> <<>>, next |-> j + 1]
                         ELSE ParseItems(t, j, <<>>)
              IN IF arr.next = 0 \/ SkipWs(t, arr.next) <= Len(t)
                 THEN JsonError
                 ELSE [ok |-> TRUE, val |-> arr.val]

\* write_matchlist: the file afterwards.
WriteMatchlist(ids) == File(JsonDumps(ids))

\* load_existing_matchlist: ok and (ordered_ids, known_ids), or not ok when
\* json.loads raises.
Loaded(ids, set) == [ok |-> TRUE, ordered_ids |-> ids, known_ids |-> set]
LoadError == [ok |-> FALSE, ordered_ids |-> <<>>, known_ids |-> {}]

LoadExistingMatchlist(file) ==
    IF ~file.exists THEN Loaded(<<>>, {})
    ELSE LET data == JsonLoads(file.text) IN
         IF ~data.ok THEN LoadError
         ELSE Loaded(data.val, Range(data.val))

----------------------------------------------------------------------------

----------------------------------------------------------------------------
\* download_match_bundle

\* The match ids the remote side knows.
MatchIds == {<<"a">>, <<"b">>, <<"c">>}

\* An optional integer: <<>> for None or a missing key, <<n>> for n.
None == <<>>
Some(n) == <<n>>

\* A match detail document: info.queueId and info.gameDuration, each of
\* which may be missing. A file holds the document it was written from.
MatchDoc(q, g) == [queueId |-> q, gameDuration |-> g]

DefaultQueueId == 420
DefaultMinDuration == 15 * 60

\* A ranked match of the minimum duration, one a second shorter, one of
\* another queue (450), and a document with neither key.
MatchDocs ==
    {MatchDoc(Some(DefaultQueueId), Some(DefaultMinDuration)),
     MatchDoc(Some(DefaultQueueId), Some(DefaultMinDuration - 1)),
     MatchDoc(Some(450), Some(DefaultMinDuration)),
     MatchDoc(None, None)}

TimelineDocs == {[frames |-> 1], [frames |-> 2]}

\* What get_json gives its caller: the parsed body, or a RuntimeError.
Ok(body) == [ok |-> TRUE, body |-> <<body>>]
Raised == [ok |-> FALSE, body |-> <<>>]

\* A get_json call, by its URL: the endpoint and the id in the path.
Req(kind, id) == [kind |-> kind, id |-> id]

\* int(info.get("gameDuration", 0))
GameDuration(doc) ==
    IF doc.gameDuration = None THEN 0 ELSE doc.gameDuration[1]

\* The two filters of download_match_bundle.
WrongQueue(doc, allowed_queue_id) ==
    allowed_queue_id # None /\ doc.queueId # allowed_queue_id

TooShortInMinutes(doc, min_duration) ==
    GameDuration(doc) < min_duration \div 60
TooShort(doc, min_duration) == GameDuration(doc) < min_duration

\* The early return of download_match_bundle.
IsCachedNever(mf, tf, match_id) == FALSE
IsCachedNoTimeline(mf, tf, match_id) ==
    mf[match_id].exists /\ ~tf[match_id].exists
IsCached(mf, tf, match_id) ==
    mf[match_id].exists /\ tf[match_id].exists

\* What a call of download_match_bundle comes to.
BundleResult(mf, tf, raised, stored, reason, reqs) ==
    [match_files |-> mf, timeline_files |-> tf, raised |-> raised,
     stored |-> stored, reason |-> reason, issued |-> reqs]

\* download_match_bundle(api, match_id, raw_dir, min_duration,
\* allowed_queue_id) on the files mf and tf, where detail and timeline are
\* what get_json gives for the match and for its timeline if it is called.
DownloadMatchBundle(mf, tf, match_id, min_duration, allowed_queue_id, detail, timeline) ==
    LET rd == Req("match", match_id)
        rt == Req("timeline", match_id)
    IN
    IF IsCached(mf, tf, match_id)
    THEN BundleResult(mf, tf, FALSE, TRUE, "cached", <<>>)
    ELSE IF ~detail.ok
    THEN BundleResult(mf, tf, TRUE, FALSE, "", <<rd>>)
    ELSE LET match_json == detail.body[1]
             written == [mf EXCEPT ![match_id] = File(match_json)]
         IN
         IF WrongQueue(match_json, allowed_queue_id)
         THEN BundleResult(mf, tf, FALSE, FALSE, "queue", <<rd>>)
         ELSE IF TooShort(match_json, min_duration)
         THEN BundleResult(mf, tf, FALSE, FALSE, "duration", <<rd>>)
         ELSE IF tf[match_id].exists
         THEN BundleResult(written, tf, FALSE, TRUE, "stored", <<rd>>)
         ELSE IF ~timeline.ok
         THEN BundleResult(written, tf, FALSE, FALSE, "timeline", <<rd, rt>>)
         ELSE BundleResult(written,
                           [tf EXCEPT ![match_id] = File(timeline.body[1])],
                           FALSE, TRUE, "stored", <<rd, rt>>)

\* queue_filter = None if args.queue_id < 0 else args.queue_id
QueueFilter(queue_id) == IF queue_id < 0 THEN None ELSE Some(queue_id)

\* No download_match_bundle call yet.
NoCall ==
    [done |-> FALSE, match_id |-> <<>>, min_duration |-> 0,
     allowed_queue_id |-> None, detail |-> Raised, raised |-> FALSE,
     stored |-> FALSE, reason |-> ""]

\* The record of a call: its arguments, what get_json gave for the match
\* detail (if asked) and how the call ended.
Call(match_id, min_duration, allowed_queue_id, detail, res) ==
    [done |-> TRUE, match_id |-> match_id, min_duration |-> min_duration,
     allowed_queue_id |-> allowed_queue_id, detail |-> detail,
     raised |-> res.raised, stored |-> res.stored, reason |-> res.reason]

----------------------------------------------------------------------------
\* main

NumDivisions == 4
MaxBatchSize == 100

\* The command line: --target-match-count, --matches-per-player,
\* --history-window, --max-pages-per-division, --min-duration, --queue-id.
Args(t, mpp, hw, mp, md, q) ==
    [target_match_count |-> t, matches_per_player |-> mpp,
     history_window |-> hw, max_pages_per_division |-> mp,
     min_duration |-> md, queue_id |-> q]

\* batch_size = max(1, min(args.matches_per_player, 100))
BatchSize == Max2(1, Min2(args.matches_per_player, MaxBatchSize))

\* history_window = max(batch_size, args.history_window)
HistoryWindow == Max2(BatchSize, args.history_window)

\* A ladder entry: its puuid and its summonerId (or encryptedSummonerId),
\* each of which may be missing.
Entry(p, sid) == [puuid |-> p, summonerId |-> sid]

LadderEntries ==
    {Entry(<<"p1">>, <<>>), Entry(<<>>, <<"s1">>), Entry(<<>>, <<>>)}

\* What the summoner endpoint answers: a document with or without a puuid.
SummonerDocs == {[puuid |-> <<"p1">>], [puuid |-> <<>>]}

\* get_json as its callers in main see it: the endpoint answers the script
\* sc, and the call returns the body or raises.
RECURSIVE GetJsonRun(_, _, _)
GetJsonRun(e, a, n) ==
    IF ~LoopHead(a, n) THEN "gave_up"
    ELSE LET r == IF e # <<>> THEN Head(e) ELSE OkResponse
             c == Classify(r.status)
         IN IF c \in {"rate_limited", "server_error"}
            THEN GetJsonRun(IF e # <<>> THEN Tail(e) ELSE e, a + 1, n)
            ELSE IF c = "client_error" THEN "failed" ELSE "ok"

GetJson(sc, body) ==
    IF GetJsonRun(sc, 1, DefaultRetries) = "ok" THEN Ok(body) ELSE Raised

\* The matches the match endpoint gives main: one to keep, one too short.
MainMatchDocs ==
    {MatchDoc(Some(DefaultQueueId), Some(DefaultMinDuration)),
     MatchDoc(Some(DefaultQueueId), Some(DefaultMinDuration - 1))}

\* The match ids the ids endpoint gives main.
MainIds == {<<"a">>, <<"b">>}

\* The timeline the match endpoint gives main.
MainTimelineDocs == {[frames |-> 1]}

\* The endpoints main meets: one that answers 200 and one that answers 404.
MainScripts == {<<>>, <<Response(404, <<>>)>>}

\* len(known_ids) >= args.target_match_count
ReachedTarget(known) == Cardinality(known) >= args.target_match_count

\* The position of iter_gold_entries after the page (dv, pg) was answered:
\* the next page of the division, or the first page of the next division
\* after an empty page or the last page.
AfterPage(dv, pg, empty) ==
    IF empty \/ pg >= args.max_pages_per_division
    THEN [division |-> dv + 1, page |-> 1]
    ELSE [division |-> dv, page |-> pg + 1]

\* The next ladder entry: one of the page at hand, or of the next page to
\* request, or none once the divisions are used up, which ends the loop.
NextEntry(es, dv) ==
    IF es # <<>> THEN "entry"
    ELSE IF dv <= NumDivisions THEN "ladder" ELSE "flush"

\* Lines 290-291, after the loop over the batches of one player.
AfterPlayer(known, es, dv) ==
    IF ReachedTarget(known) THEN "flush" ELSE NextEntry(es, dv)

\* Lines 288-289 and the head of the loop over the batch offsets.
AfterBatchNoBreak(known, st, es, dv) ==
    IF st + BatchSize < HistoryWindow THEN "scan"
    ELSE AfterPlayer(known, es, dv)
AfterBatch(known, st, es, dv) ==
    IF ReachedTarget(known) THEN AfterPlayer(known, es, dv)
    ELSE IF st + BatchSize < HistoryWindow THEN "scan"
    ELSE AfterPlayer(known, es, dv)

\* After one match id of the batch: lines 286-287 when it was accepted
\* (accepted = TRUE), `continue` otherwise.
AfterMatch(accepted, known, rest, st, es, dv) ==
    IF accepted /\ ReachedTarget(known) THEN AfterBatch(known, st, es, dv)
    ELSE IF rest # <<>> THEN "match"
    ELSE AfterBatch(known, st, es, dv)

\* The test of line 270.
IsKnownNever(m, known) == FALSE
IsKnown(m, known) == m \in known

\* Lines 272-281: main keeps the match when download_match_bundle raised no
\* RuntimeError and returned stored = True.
KeptUnlessRaised(res) == ~res.raised
Kept(res) == ~res.raised /\ res.stored

\* ordered_ids.append(match_id), new_matches.append(match_id)
AcceptFirst(ids, m) == <<m>> \o ids
Accept(ids, m) == Append(ids, m)

\* The ids the scan has met and main has kept or skipped as known, in the
\* order it met them, without those of the loaded list l and each once.
Discover(d, l, m) ==
    IF m \in Range(l) \/ m \in Range(d) THEN d ELSE Append(d, m)

Running == {"ladder", "entry", "scan", "match", "flush"}
Ended == {"done", "no_key", "crashed", "interrupted"}

\* The memory of a process that has not started.
Fresh ==
    /\ pc = "start"
    /\ ordered_ids = <<>>
    /\ known_ids = {}
    /\ new_matches = <<>>
    /\ puuid_cache = {}
    /\ skip_key = ""
    /\ division = 1
    /\ page = 1
    /\ entries = <<>>
    /\ start = 0
    /\ match_ids = <<>>
    /\ batch_len = 0
    /\ loaded_ids = <<>>
    /\ discovered = <<>>

\* Lines 213-239: the API key, the matchlist.
MainStart ==
    /\ pc = "start"
    /\ \E has_key \in BOOLEAN :
          LET loaded == LoadExistingMatchlist(matchlist_file) IN
          /\ pc' = IF ~has_key THEN "no_key"
                   ELSE IF ~loaded.ok THEN "crashed"
                   ELSE "ladder"
          /\ ordered_ids' = IF has_key THEN loaded.ordered_ids ELSE <<>>
          /\ known_ids' = IF has_key THEN loaded.known_ids ELSE {}
          /\ loaded_ids' = IF has_key THEN loaded.ordered_ids ELSE <<>>
    /\ issued' = <<>>
    /\ UNCHANGED <<new_matches, puuid_cache, skip_key, division, page,
                   entries, start, match_ids, batch_len, discovered>>
    /\ UNCHANGED <<limVars, cliVars, rtVars, diskVars, last_call, args, accepted_earlier>>

\* iter_gold_entries: the request of one ladder page.
LadderFetch ==
    /\ pc = "ladder"
    /\ \E sc \in MainScripts, es \in SeqsUpTo(LadderEntries, MaxPageLen) :
          LET res == GetJson(sc, es)
              pos == AfterPage(division, page, es = <<>>)
          IN IF ~res.ok
             THEN /\ pc' = "crashed"
                  /\ UNCHANGED <<division, page, entries>>
             ELSE /\ division' = pos.division
                  /\ page' = pos.page
                  /\ entries' = es
                  /\ pc' = NextEntry(es, pos.division)
    /\ issued' = <<Req("ladder", <<>>)>>
    /\ skip_key' = ""
    /\ UNCHANGED <<ordered_ids, known_ids, new_matches, puuid_cache, start,
                   match_ids, batch_len, loaded_ids, discovered>>
    /\ UNCHANGED <<limVars, cliVars, rtVars, diskVars, last_call, args, accepted_earlier>>

\* Lines 242-254: the puuid of the entry, from the entry, from the cache or
\* from the summoner endpoint (fetch_puuid).
ProcessEntry ==
    /\ pc = "entry"
    /\ LET e == Head(entries)
           rest == Tail(entries)
           skip == NextEntry(rest, division)
       IN
       /\ entries' = rest
       /\ IF e.puuid # <<>>
          THEN /\ pc' = "scan"
               /\ issued' = <<>>
               /\ UNCHANGED puuid_cache
          ELSE IF e.summonerId = <<>>
          THEN /\ pc' = skip
               /\ issued' = <<>>
               /\ UNCHANGED puuid_cache
          ELSE IF \E c \in puuid_cache : c[1] = e.summonerId
          THEN /\ pc' = "scan"
               /\ issued' = <<>>
               /\ UNCHANGED puuid_cache
          ELSE \E sc \in MainScripts, data \in SummonerDocs :
                  LET res == GetJson(sc, data) IN
                  /\ issued' = <<Req("summoner", e.summonerId)>>
                  /\ pc' = IF ~res.ok THEN "crashed"
                           ELSE IF data.puuid # <<>> THEN "scan"
                           ELSE skip
                  /\ puuid_cache' =
                        IF res.ok /\ data.puuid # <<>>
                        THEN puuid_cache \cup {<<e.summonerId, data.puuid>>}
                        ELSE puuid_cache
    /\ start' = 0
    /\ skip_key' = ""
    /\ UNCHANGED <<ordered_ids, known_ids, new_matches, division, page,
                   match_ids, batch_len, loaded_ids, discovered>>
    /\ UNCHANGED <<limVars, cliVars, rtVars, diskVars, last_call, args, accepted_earlier>>

\* Lines 255-267: the request of one batch of match ids.
ScanBatch ==
    /\ pc = "scan"
    /\ \E sc \in MainScripts,
          ids \in SeqsUpTo(MainIds, Min2(BatchSize, MaxBatchLen)) :
          LET res == GetJson(sc, ids) IN
          IF res.ok /\ ids # <<>>
          THEN /\ pc' = "match"
               /\ match_ids' = ids
               /\ batch_len' = Len(ids)
               /\ skip_key' = ""
               /\ start' = start
          ELSE /\ pc' = AfterPlayer(known_ids, entries, division)
               /\ match_ids' = <<>>
               /\ batch_len' = 0
               /\ skip_key' = IF res.ok THEN "" ELSE "api_error"
               /\ start' = 0
    /\ issued' = <<Req("ids", <<start>>)>>
    /\ UNCHANGED <<ordered_ids, known_ids, new_matches, puuid_cache,
                   division, page, entries, loaded_ids, discovered>>
    /\ UNCHANGED <<limVars, cliVars, rtVars, diskVars, last_call, args, accepted_earlier>>

\* Lines 269-289: one match id of the batch.
ProcessMatch ==
    /\ pc = "match"
    /\ LET m == Head(match_ids)
           rest == Tail(match_ids)
       IN
       /\ match_ids' = rest
       /\ IF IsKnown(m, known_ids)
          THEN /\ skip_key' = "duplicate_id"
               /\ issued' = <<>>
               /\ pc' = AfterMatch(FALSE, known_ids, rest, start, entries,
                                   division)
               /\ discovered' = Discover(discovered, loaded_ids, m)
               /\ UNCHANGED <<ordered_ids, known_ids, new_matches,
                              match_files, timeline_files>>
          ELSE \E sd \in MainScripts, doc \in MainMatchDocs,
                  st \in MainScripts, tl \in MainTimelineDocs :
                  LET res == DownloadMatchBundle(
                                 match_files, timeline_files, m,
                                 args.min_duration,
                                 QueueFilter(args.queue_id),
                                 GetJson(sd, doc), GetJson(st, tl))
                      accepted == Kept(res)
                      known == IF accepted THEN known_ids \cup {m}
                               ELSE known_ids
                  IN
                  /\ match_files' = res.match_files
                  /\ timeline_files' = res.timeline_files
                  /\ issued' = res.issued
                  /\ skip_key' = IF res.raised THEN "download_error"
                                 ELSE IF ~res.stored
                                 THEN res.reason
                                 ELSE ""
                  /\ known_ids' = known
                  /\ ordered_ids' = IF accepted THEN Accept(ordered_ids, m)
                                    ELSE ordered_ids
                  /\ new_matches' = IF accepted THEN Accept(new_matches, m)
                                    ELSE new_matches
                  /\ discovered' =
                        IF accepted
                        THEN Discover(discovered, loaded_ids, m)
                        ELSE discovered
                  /\ pc' = AfterMatch(accepted, known, rest, start, entries,
                                      division)
    /\ start' = IF pc' = "match" THEN start
                ELSE IF pc' = "scan" THEN start + BatchSize
                ELSE 0
    /\ batch_len' = IF pc' = "match" THEN batch_len ELSE 0
    /\ UNCHANGED <<puuid_cache, division, page, entries, loaded_ids>>
    /\ UNCHANGED <<limVars, cliVars, rtVars, matchlist_file, last_call, args, accepted_earlier>>

\* Lines 293-309: the matchlist is written if new_matches is not empty, and
\* main returns 0.
Flush ==
    /\ pc = "flush"
    /\ matchlist_file' = IF new_matches # <<>> THEN WriteMatchlist(ordered_ids)
                         ELSE matchlist_file
    /\ pc' = "done"
    /\ issued' = <<>>
    /\ skip_key' = ""
    /\ UNCHANGED <<ordered_ids, known_ids, new_matches, puuid_cache,
                   division, page, entries, start, match_ids, batch_len,
                   loaded_ids,
                   discovered>>
    /\ UNCHANGED <<limVars, cliVars, rtVars, match_files, timeline_files,
                   last_call, args, accepted_earlier>>

\* The process is stopped between two steps of main (a signal, or an
\* exception that main does not catch and that is no RuntimeError): its
\* memory is gone, the files stay as they are.
Interrupt ==
    /\ pc \in Running
    /\ pc' = "interrupted"
    /\ ordered_ids' = <<>>
    /\ known_ids' = {}
    /\ new_matches' = <<>>
    /\ puuid_cache' = {}
    /\ skip_key' = ""
    /\ division' = 1
    /\ page' = 1
    /\ entries' = <<>>
    /\ start' = 0
    /\ match_ids' = <<>>
    /\ batch_len' = 0
    /\ loaded_ids' = <<>>
    /\ discovered' = <<>>
    /\ issued' = <<>>
    /\ accepted_earlier' = accepted_earlier \cup Range(new_matches)
    /\ UNCHANGED <<limVars, cliVars, rtVars, diskVars, last_call, args>>

\* The program is started again: a new process, the files as they are.
Restart ==
    /\ pc \in Ended
    /\ pc' = "start"
    /\ ordered_ids' = <<>>
    /\ known_ids' = {}
    /\ new_matches' = <<>>
    /\ puuid_cache' = {}
    /\ skip_key' = ""
    /\ division' = 1
    /\ page' = 1
    /\ entries' = <<>>
    /\ start' = 0
    /\ match_ids' = <<>>
    /\ batch_len' = 0
    /\ loaded_ids' = <<>>
    /\ discovered' = <<>>
    /\ issued' = <<>>
    /\ accepted_earlier' = accepted_earlier \cup Range(new_matches)
    /\ UNCHANGED <<limVars, cliVars, rtVars, diskVars, last_call, args>>

----------------------------------------------------------------------------
\* The parts of the state a specification does not follow stay as they are
\* before the program touches them.

\* RiotRateLimiter() as RiotAPI constructs it, not yet used.
LimIdle ==
    /\ per_second = DefaultPerSecond
    /\ per_two_minutes = DefaultPerTwoMinutes
    /\ second_window = <<>>
    /\ two_minute_window = <<>>
    /\ clock = 0
    /\ wpc = "idle"
    /\ sleep_for = 0
    /\ admitted = <<>>
    /\ calls = 0

\* The client variables while no get_json call is being followed.
CliIdle ==
    /\ retries = 0
    /\ attempt = 0
    /\ gpc = "idle"
    /\ script = <<>>
    /\ seen = <<>>
    /\ slept = <<>>
    /\ outcome = "none"

NotLoaded == [done |-> FALSE, source |-> NoFile, result |-> LoadError]

RtIdle ==
    /\ rt_ids = <<>>
    /\ rt_loaded = NotLoaded

\* main is not run; the arguments are the defaults of parse_args.
MainIdle ==
    /\ args = Args(DefaultTargetMatches, DefaultMatchesPerPlayer,
                   DefaultHistoryWindow, DefaultMaxPages, DefaultMinDuration,
                   DefaultQueueId)
    /\ Fresh
    /\ accepted_earlier = {}

\* An empty raw_dir and no download_match_bundle call yet.
BundleIdle ==
    /\ match_files = [m \in MatchIds |-> NoFile]
    /\ timeline_files = [m \in MatchIds |-> NoFile]
    /\ issued = <<>>
    /\ last_call = NoCall

----------------------------------------------------------------------------
\* The program: runs of main, one after the other, on an empty raw_dir and
\* no matchlist at first; a run ends by returning, by an exception nobody
\* catches, or by being stopped from outside. The remote side answers each
\* request with any ladder page, any batch of match ids, any match.
MainArgs ==
    {Args(t, b[1], b[2], 2, DefaultMinDuration, DefaultQueueId) :
        t \in 1..MaxTarget, b \in {<<0, 0>>, <<2, 4>>}}

Init ==
    /\ LimIdle
    /\ CliIdle
    /\ RtIdle
    /\ BundleIdle
    /\ matchlist_file = NoFile
    /\ args \in MainArgs
    /\ Fresh
    /\ accepted_earlier = {}

Next ==
    \/ MainStart
    \/ LadderFetch
    \/ ProcessEntry
    \/ ScanBatch
    \/ ProcessMatch
    \/ Flush
    \/ Interrupt
    \/ Restart

Spec == Init /\ [][Next]_vars

----------------------------------------------------------------------------
\* download_match_bundle on its own: calls with any arguments and any
\* answers of the remote side, on a raw_dir that starts with any of its
\* files present.
BundleIds == {<<"a">>, <<"b">>}

AnyFile(docs) == {NoFile} \cup {File(d) : d \in docs}

BundleDocs == {MatchDoc(Some(DefaultQueueId), Some(DefaultMinDuration))}

BundleInit ==
    /\ LimIdle
    /\ CliIdle
    /\ RtIdle
    /\ matchlist_file = NoFile
    /\ match_files \in
          {[m \in MatchIds |-> IF m \in BundleIds THEN f[m] ELSE NoFile] :
              f \in [BundleIds -> AnyFile(BundleDocs)]}
    /\ timeline_files \in
          {[m \in MatchIds |-> IF m \in BundleIds THEN f[m] ELSE NoFile] :
              f \in [BundleIds -> AnyFile({[frames |-> 1]})]}
    /\ issued = <<>>
    /\ last_call = NoCall
    /\ MainIdle

BundleCall ==
    \E match_id \in BundleIds, min_duration \in {0, DefaultMinDuration},
       queue_id \in {-1, DefaultQueueId, 450},
       detail \in {Raised} \cup {Ok(d) : d \in MatchDocs},
       timeline \in {Raised} \cup {Ok(d) : d \in TimelineDocs} :
        LET res == DownloadMatchBundle(match_files, timeline_files, match_id,
                                       min_duration, QueueFilter(queue_id),
                                       detail, timeline)
        IN /\ match_files' = res.match_files
           /\ timeline_files' = res.timeline_files
           /\ issued' = res.issued
           /\ last_call' = Call(match_id, min_duration,
                                QueueFilter(queue_id),
                                IF res.issued = <<>> THEN Raised ELSE detail,
                                res)
           /\ UNCHANGED <<limVars, cliVars, rtVars, matchlist_file, mainVars>>

BundleNext == BundleCall

SpecBundle == BundleInit /\ [][BundleNext]_vars

----------------------------------------------------------------------------
\* The round trip on its own: a list of ids is written and read back, and
\* the file is read while absent.

RtInit ==
    /\ LimIdle
    /\ CliIdle
    /\ matchlist_file = NoFile
    /\ rt_ids \in SeqsUpTo(SeqsUpTo(IdChars, MaxIdLen), MaxListLen)
    /\ rt_loaded = NotLoaded
    /\ BundleIdle
    /\ MainIdle

RtWrite ==
    /\ matchlist_file = NoFile
    /\ matchlist_file' = WriteMatchlist(rt_ids)
    /\ UNCHANGED <<limVars, cliVars, rtVars, bundleVars, mainVars>>

RtLoad ==
    /\ rt_loaded = NotLoaded
    /\ rt_loaded' = [done |-> TRUE, source |-> matchlist_file,
                     result |-> LoadExistingMatchlist(matchlist_file)]
    /\ UNCHANGED <<limVars, cliVars, matchlist_file, rt_ids, bundleVars,
                   mainVars>>

RtNext == RtWrite \/ RtLoad

SpecRoundTrip == RtInit /\ [][RtNext]_vars

----------------------------------------------------------------------------
\* One get_json call against a scripted endpoint, entered at the first line
\* of the function. The limiter is the default one of RiotAPI, or one with a
\* long window small enough for the retries of one call to fill.
CliInit ==
    /\ per_second = DefaultPerSecond
    /\ per_two_minutes \in {MaxPerTwoMinutes, DefaultPerTwoMinutes}
    /\ second_window = <<>>
    /\ two_minute_window = <<>>
    /\ clock = 0
    /\ wpc = "idle"
    /\ sleep_for = 0
    /\ admitted = <<>>
    /\ calls = 0
    /\ retries \in 0..MaxRetries
    /\ attempt = 1
    /\ gpc = "loop"
    /\ script \in SeqsUpTo(Responses, MaxScript)
    /\ seen = <<>>
    /\ slept = <<>>
    /\ outcome = "none"
    /\ matchlist_file = NoFile
    /\ RtIdle
    /\ BundleIdle
    /\ MainIdle

CliWaitCheck ==
    WaitCheck(0) /\ UNCHANGED <<cliVars, rtVars, diskVars, issued, last_call, mainVars>>

CliWaitSleep == WaitSleep /\ UNCHANGED <<cliVars, rtVars, diskVars, issued, last_call, mainVars>>

CliNext ==
    \/ GetJsonAttempt
    \/ CliWaitCheck
    \/ CliWaitSleep
    \/ GetJsonRequest
    \/ GetJsonHandle

SpecClient == CliInit /\ [][CliNext]_vars

----------------------------------------------------------------------------
\* The limiter on its own: a caller that calls wait() up to MaxCalls times,
\* an arbitrary time (from Elapsed) passing before each reading of the clock.
Elapsed == {0, ShortWindow - 1, ShortWindow, LongWindow - 1, LongWindow}

LimInit ==
    /\ per_second \in 1..MaxPerSecond
    /\ per_two_minutes \in 1..MaxPerTwoMinutes
    /\ second_window = <<>>
    /\ two_minute_window = <<>>
    /\ clock = 0
    /\ wpc = "idle"
    /\ sleep_for = 0
    /\ admitted = <<>>
    /\ calls = 0
    /\ CliIdle
    /\ matchlist_file = NoFile
    /\ RtIdle
    /\ BundleIdle
    /\ MainIdle

LimCall ==
    /\ wpc = "idle"
    /\ calls < MaxCalls
    /\ wpc' = "check"
    /\ calls' = calls + 1
    /\ UNCHANGED <<per_second, per_two_minutes, second_window,
                   two_minute_window, clock, sleep_for, admitted>>
    /\ UNCHANGED <<cliVars, rtVars, diskVars, issued, last_call, mainVars>>

LimCheck ==
    /\ \E d \in Elapsed : WaitCheck(d)
    /\ UNCHANGED <<cliVars, rtVars, diskVars, issued, last_call, mainVars>>

LimSleep == WaitSleep /\ UNCHANGED <<cliVars, rtVars, diskVars, issued, last_call, mainVars>>

LimNext == LimCall \/ LimCheck \/ LimSleep

SpecLimiter == LimInit /\ [][LimNext]_vars

----------------------------------------------------------------------------
\* C1: under monotonically advancing time, no window of 1 time unit
\* [t, t + 1) holds more than per_second admitted timestamps and no window
\* of 120 time units [t, t + 120) holds more than per_two_minutes. A window
\* holding some admitted timestamps can be slid right until it starts at
\* the earliest of them, so the windows that start at an admitted timestamp
\* are the ones to count.
InWindow(i, span) ==
    {j \in 1..Len(admitted) :
        admitted[i] <= admitted[j] /\ admitted[j] < admitted[i] + span}

C1_SlidingWindows ==
    \A i \in 1..Len(admitted) :
        /\ Cardinality(InWindow(i, ShortWindow)) <= per_second
        /\ Cardinality(InWindow(i, LongWindow)) <= per_two_minutes

\* A caller was made to sleep and then admitted: more timestamps have been
\* admitted than the long window allows at once.
C1_Witness ==
    /\ wpc = "idle"
    /\ Len(admitted) > per_two_minutes
    /\ per_second < per_two_minutes

----------------------------------------------------------------------------
\* What the endpoint of a get_json call answers, from the first request on:
\* the responses given so far, then the rest of its script (then 200).
Endpoint == seen \o script

Terminated == gpc \in {"returned", "raised"}

ServerErrors == {r \in Responses : r.status >= 500}
RateLimits == {r \in Responses : r.status = 429}

\* The number of leading responses of e that are in R.
RECURSIVE Leading(_, _)
Leading(e, R) ==
    IF e # <<>> /\ Head(e) \in R THEN 1 + Leading(Tail(e), R) ELSE 0

\* The endpoint e answers some responses of R, then 200.
ThenOk(e, R) ==
    LET k == Leading(e, R) IN Len(e) = k \/ e[k + 1].status = 200

\* C7: against an endpoint that answers k consecutive 5xx responses and then
\* 200, get_json with retries = m returns the body when k < m and raises
\* the "Giving up" error when k >= m, after exactly min(k + 1, m) requests.
C7_ServerErrorsThenOk ==
    (Terminated /\ ThenOk(Endpoint, ServerErrors)) =>
        LET k == Leading(Endpoint, ServerErrors) IN
        IF k < retries
        THEN outcome = "ok" /\ Len(seen) = k + 1
        ELSE outcome = "gave_up" /\ Len(seen) = retries

\* 503 three times, then 200, with retries = 5: the fourth request succeeds.
C7_Witness ==
    /\ gpc = "returned"
    /\ retries = 5
    /\ Leading(Endpoint, ServerErrors) = 3
    /\ Len(seen) = 4

\* C8: a 429 response is followed by a sleep of its Retry-After (1 time unit
\* without the header) plus a positive margin and by the next attempt; it
\* uses up one attempt and is never the response get_json fails on. Against
\* an endpoint answering j 429s and then 200, get_json returns the body
\* after j + 1 requests when j < retries, and gives up only when the 429s
\* have used up all the attempts.
C8_RateLimitedRetried ==
    /\ RetryMargin > 0
    /\ \A i \in 1..Len(seen) :
          seen[i].status = 429 =>
             /\ i = Len(seen) => gpc \in {"handle", "loop", "wait", "raised"}
             /\ gpc # "handle" \/ i < Len(seen) =>
                   /\ Len(slept) >= i
                   /\ slept[i] =
                        (IF seen[i].retry_after = <<>> THEN 1
                         ELSE seen[i].retry_after[1]) * TicksPerUnit
                        + RetryMargin
                   /\ outcome # "failed" \/ i < Len(seen)
                   /\ i = Len(seen) => attempt = i + 1
    /\ (Terminated /\ ThenOk(Endpoint, RateLimits)) =>
          LET j == Leading(Endpoint, RateLimits) IN
          IF j < retries
          THEN outcome = "ok" /\ Len(seen) = j + 1
          ELSE outcome = "gave_up" /\ Len(seen) = retries

\* 429 with Retry-After: 2, then 200: success on the second attempt, after
\* one sleep of 2 time units and the margin.
C8_Witness ==
    /\ gpc = "returned"
    /\ Len(seen) = 2
    /\ seen[1] = Response(429, <<2>>)
    /\ slept = <<2 * TicksPerUnit + RetryMargin>>

IsClientError(r) == r.status >= 400 /\ r.status < 500 /\ r.status # 429

\* C9: a 4xx response other than 429 is the last response of the call:
\* get_json raises on it, with no sleep, no further wait() and no further
\* request after it, whatever is left of the attempt budget.
C9_ClientErrorTerminal ==
    \A i \in 1..Len(seen) :
        IsClientError(seen[i]) =>
            /\ i = Len(seen)
            /\ Len(slept) = i - 1
            /\ calls = i
            /\ wpc = "idle"
            /\ gpc \in {"handle", "raised"}
            /\ gpc = "raised" => outcome = "failed"

\* A 404 on the second attempt, with at least two attempts left.
C9_Witness ==
    /\ gpc = "raised"
    /\ outcome = "failed"
    /\ Len(seen) = 2
    /\ retries >= 4

\* C6: load_existing_matchlist after write_matchlist on the same path
\* returns the list that was written and the set of its elements; on an
\* absent file it returns the empty list and the empty set.
C6_RoundTrip ==
    rt_loaded.done =>
        /\ rt_loaded.result.ok
        /\ IF rt_loaded.source.exists
           THEN /\ rt_loaded.result.ordered_ids = rt_ids
                /\ rt_loaded.result.known_ids = Range(rt_ids)
           ELSE /\ rt_loaded.result.ordered_ids = <<>>
                /\ rt_loaded.result.known_ids = {}

\* A list of two ids holding a quote and a backslash was written and read.
C6_Witness ==
    /\ rt_loaded.done
    /\ rt_loaded.source.exists
    /\ Len(rt_ids) = 2
    /\ Quote \in Range(rt_ids[1])
    /\ Backslash \in Range(rt_ids[2])

----------------------------------------------------------------------------
\* C2: a download_match_bundle call for a match id whose two files both
\* exist returns (True, "cached"), calls get_json not once and leaves every
\* file as it was; this holds of every call, so of any number of them.
C2_CachedIdempotent ==
    [][\A m \in MatchIds :
          (last_call'.done /\ last_call'.match_id = m
           /\ match_files[m].exists /\ timeline_files[m].exists) =>
             /\ last_call'.stored
             /\ last_call'.reason = "cached"
             /\ ~last_call'.raised
             /\ issued' = <<>>
             /\ match_files' = match_files
             /\ timeline_files' = timeline_files]_vars

\* A call on a complete bundle has returned "cached" while the other match
\* id has a detail file only.
C2_Witness ==
    /\ last_call.done
    /\ last_call.reason = "cached"
    /\ match_files[last_call.match_id].exists
    /\ timeline_files[last_call.match_id].exists
    /\ \E m \in MatchIds : match_files[m].exists /\ ~timeline_files[m].exists

\* C3: a call that fetches a match whose queue id differs from the
\* configured filter, or whose duration is below the minimum, writes no
\* file: every detail and timeline file is as before the call.
C3_RejectedNotWritten ==
    [][(/\ last_call'.done
        /\ last_call'.detail.ok
        /\ LET doc == last_call'.detail.body[1]
               allowed == last_call'.allowed_queue_id
               duration == IF doc.gameDuration = <<>> THEN 0
                           ELSE doc.gameDuration[1]
           IN \/ allowed # <<>> /\ doc.queueId # allowed
              \/ duration < last_call'.min_duration) =>
          /\ match_files' = match_files
          /\ timeline_files' = timeline_files]_vars

\* A match one second too short was fetched and rejected while a detail
\* file of an earlier call for that id is on disk.
C3_Witness ==
    /\ last_call.done
    /\ last_call.reason = "duration"
    /\ last_call.allowed_queue_id # None
    /\ match_files[last_call.match_id].exists

\* C5: in every state of a run, after the load and after any acceptances,
\* known_ids is the set of the elements of ordered_ids and ordered_ids holds
\* no id twice, however often the scan meets the same id.
C5_SetIsListNoDuplicates ==
    /\ known_ids = Range(ordered_ids)
    /\ Len(ordered_ids) = Cardinality(known_ids)

\* An id accepted in this run has been met again and skipped.
C5_Witness ==
    /\ pc \in Running
    /\ skip_key = "duplicate_id"
    /\ loaded_ids = <<>>
    /\ new_matches # <<>>

\* C4: when a run that loaded the matchlist L has ended, the matchlist on
\* disk is L followed by the ids the run discovered that are not in L, each
\* once, in the order of their discovery.
C4_LoadMergeSave ==
    pc = "done" =>
        LoadExistingMatchlist(matchlist_file) =
            Loaded(loaded_ids \o discovered, Range(loaded_ids \o discovered))

\* With [a] on disk the run met a again, then b: the matchlist is [a, b].
C4_Witness ==
    /\ pc = "done"
    /\ loaded_ids = << <<"a">> >>
    /\ discovered = << <<"b">> >>
    /\ matchlist_file = WriteMatchlist(<< <<"a">>, <<"b">> >>)

\* C10: once an acceptance of this run has brought the number of known ids
\* to the target, main is at the final flush, and that step makes no request
\* (no bundle download, no batch of match ids, no puuid, no ladder page).
AtTarget == pc \in Running /\ new_matches # <<>> /\ ReachedTarget(known_ids)

C10_StopsAtTarget ==
    [][AtTarget => /\ pc = "flush"
                   /\ pc' \in {"done", "interrupted"}
                   /\ issued' = <<>>]_vars

\* The target is met exactly while ids of the batch, batches of the player
\* and pages of the ladder are still to come.
C10_Witness ==
    /\ AtTarget
    /\ Cardinality(known_ids) = args.target_match_count
    /\ match_ids # <<>>
    /\ start + BatchSize < HistoryWindow
    /\ division <= NumDivisions

\* C11: a fetch error that get_json raises (a 4xx other than 429, or the
\* attempts used up) never ends the run: the only exception that leaves main
\* is the one of an unparsable matchlist.
C11_ErrorsNeverAbort ==
    pc = "crashed" => ~LoadExistingMatchlist(matchlist_file).ok

\* C12: whenever a run has accepted a new match, the matchlist on disk at
\* the end of the run, whichever way it ends, is the whole ordered list in
\* memory: the loaded ids followed by every id accepted in the run.
C12_FlushedAtEveryEnd ==
    (pc \in Ended /\ new_matches # <<>>) =>
        LoadExistingMatchlist(matchlist_file) =
            Loaded(ordered_ids, Range(ordered_ids))

\* C13: a run that follows an interrupted one issues no match request and
\* no timeline request for an id that an earlier run accepted, whether or
\* not that id had reached the matchlist on disk.
C13_ResumeWithoutRedownload ==
    [][\A i \in 1..Len(issued') :
          issued'[i].kind \in {"match", "timeline"} =>
              issued'[i].id \notin accepted_earlier]_vars

\* A run was stopped before its flush; the next run, which loaded no
\* matchlist, has met the id that run accepted and kept it without a request.
C13_Witness ==
    /\ AtTarget
    /\ pc = "flush"
    /\ loaded_ids = <<>>
    /\ new_matches[Len(new_matches)] \in accepted_earlier
    /\ issued = <<>>

\* C14: a call whose timeline request fails after the detail file was
\* written leaves the detail file without a timeline file and is not
\* stored; and a call for a match id that has a detail file and no timeline
\* file makes no match request and leaves the detail file as it is.
C14_DetailOnlyCompleted ==
    [][\A m \in MatchIds :
          (last_call'.done /\ last_call'.match_id = m) =>
             /\ last_call'.reason = "timeline" =>
                   /\ match_files'[m].exists
                   /\ ~timeline_files'[m].exists
                   /\ ~last_call'.stored
             /\ (match_files[m].exists /\ ~timeline_files[m].exists) =>
                   /\ Req("match", m) \notin Range(issued')
                   /\ match_files'[m] = match_files[m]]_vars

\* C15: a request that times out is handled as a 5xx response is: it uses up
\* one attempt and is followed by the backoff sleep and the next attempt, so
\* that get_json raises on it only when the attempts are used up.
C15_TimeoutRetried ==
    (gpc = "raised" /\ seen # <<>> /\ seen[Len(seen)] = TimedOut) =>
        /\ outcome = "gave_up"
        /\ attempt > retries
        /\ Len(slept) = Len(seen)

\* C16: the batches of one player are requested at the offsets 0, batchSize,
\* 2 * batchSize, ... below the history depth, and once a batch has come
\* back with fewer ids than batchSize no further batch of that player is
\* requested.
C16_ScanStopsOnShortBatch ==
    [][/\ pc' = "scan" =>
             /\ start' % BatchSize = 0
             /\ start' < HistoryWindow
       /\ (pc = "match" /\ batch_len < BatchSize) => pc' # "scan"]_vars

\* C17: when wait() cannot admit, it sleeps the time the window that is full
\* needs to free a slot, at least the floor: when only the window of 1 time
\* unit is full, the sleep is the time until its oldest timestamp leaves it,
\* which is at most 1 time unit, however old the timestamps of the window of
\* 120 time units are.
C17_SleepOfFullWindow ==
    (/\ wpc = "sleep"
     /\ Len(second_window) >= per_second
     /\ Len(two_minute_window) < per_two_minutes) =>
        /\ sleep_for =
              Max2(SleepFloor, ShortWindow - (clock - Head(second_window)))
        /\ sleep_for <= ShortWindow

\* C18: inside one get_json call every request, the first and every retry,
\* comes right after one admission by rate_limiter.wait(): there are as many
\* admissions as requests, one more while the admitted request is not yet
\* sent, which is then sent at the time of its admission; and there are
\* never more requests than retries.
C18_OneAdmissionPerAttempt ==
    /\ Len(seen) <= retries
    /\ calls <= retries
    /\ IF gpc = "wait"
       THEN /\ calls = Len(seen) + 1
            /\ IF wpc = "idle"
               THEN /\ Len(admitted) = Len(seen) + 1
                    /\ admitted[Len(admitted)] = clock
               ELSE Len(admitted) = Len(seen)
       ELSE /\ calls = Len(seen)
            /\ Len(admitted) = Len(seen)

\* A call has returned after more requests than the window of 120 time units
\* admits at once: a retry had to sleep inside wait() before it was sent.
C18_Witness ==
    /\ gpc = "returned"
    /\ per_two_minutes = MaxPerTwoMinutes
    /\ Len(seen) = MaxPerTwoMinutes + 1
    /\ admitted[Len(admitted)] - admitted[1] >= LongWindow

\* C19: every id appended to ordered_ids while its batch is processed has
\* its detail file and its timeline file on disk at that moment, and a match
\* whose timeline request failed is not appended.
C19_CompleteWhenAppended ==
    [][pc = "match" =>
          /\ \A m \in Range(ordered_ids') \ Range(ordered_ids) :
                /\ match_files'[m].exists
                /\ timeline_files'[m].exists
          /\ skip_key' = "timeline" =>
                /\ ordered_ids' = ordered_ids
                /\ known_ids' = known_ids]_vars

\* A match was downloaded and appended while the other id, whose timeline
\* request had failed, has a detail file only and is not in the list.
C19_Witness ==
    /\ pc \in Running
    /\ new_matches # <<>>
    /\ skip_key = ""
    /\ Len(issued) = 2
    /\ \E m \in MainIds :
          /\ match_files[m].exists
          /\ ~timeline_files[m].exists
          /\ m \notin known_ids

\* C20: a run never overshoots the target: with n0 ids loaded and the target
\* T the list never grows beyond max(n0, T), and a run that loaded T ids or
\* more accepts no new match.
C20_NeverOvershoots ==
    pc \in Running \cup {"done", "crashed"} =>
        /\ Len(ordered_ids) <=
              Max2(Len(loaded_ids), args.target_match_count)
        /\ Len(loaded_ids) >= args.target_match_count => new_matches = <<>>

====
